---- MODULE Spec2Model ----
(***************************************************************************)
(* Model of the GCP disk reporting scripts:                                *)
(*   gcp_disk_savings_calculator.py  (API-driven savings report)           *)
(*   new_report.py                   (CSV-driven savings report)           *)
(*                                                                         *)
(* Strings whose characters the code inspects (zone and region names) are  *)
(* sequences of one-character strings.  Money is kept in fixed point, in   *)
(* thousandths of a dollar; percentages in tenths of a percent.            *)
(***************************************************************************)
EXTENDS Integers, Sequences, FiniteSets, TLC

\* ------------------------------------------------------------------ bounds
MaxSize == 2      \* disk sizes range over 0..MaxSize GB
MaxDisks == 2     \* disks returned by one zone listing / descriptors of one call
MaxRows == 2      \* rows of the input CSV

\* ------------------------------------------------------- string constants
UsWest1 == <<"u","s","-","w","e","s","t","1">>
UsWest1A == UsWest1 \o <<"-","a">>
UsWest1B == UsWest1 \o <<"-","b">>
UsEast1B == <<"u","s","-","e","a","s","t","1","-","b">>
EuWest9 == <<"e","u","-","w","e","s","t","9">>
Default == <<"d","e","f","a","u","l","t">>
UsWest1Prefix == UsWest1 \o <<"-">>

ZoneNames == {UsWest1A, UsWest1B, UsEast1B}
D1 == <<"d","1">>
D2 == <<"d","2">>
D3 == <<"d","3">>
D4 == <<"d","4">>
XD1 == <<"x">> \o D1                  \* another disk, whose name ends with d1
DiskNames == <<D1, D2, D3, D4>>        \* the k-th disk of a listing
DiskTypes == {"pd-ssd", "pd-balanced", "pd-standard"}
Sizes == 0..MaxSize
MissingSize == -1                   \* the key sizeGb / 'Disk Size (GB)' is absent
MissingRegion == <<"<missing>">>    \* the key 'Region' is absent
NoRecord == "No Record"
NoRecordSize == -2                  \* the size cell holds 'No Record'
Unbound == <<"<unbound>">>          \* a local variable not yet assigned
NoFault == "none"
NotAttached == "Not attached"
NoUsers == "<no users>"                \* the key 'users' is absent

\* ------------------------------------------------------------ fixed point
Pow10(n) == IF n = 0 THEN 1 ELSE IF n = 1 THEN 10 ELSE IF n = 2 THEN 100 ELSE 1000

\* n/d rounded to the nearest integer, ties to the even one (Python round)
RoundHalfEven(n, d) ==
    LET q == n \div d
        r == n % d
    IN  IF 2 * r < d THEN q
        ELSE IF 2 * r > d THEN q + 1
        ELSE IF q % 2 = 0 THEN q ELSE q + 1

\* round(x, ndigits) of an amount x in thousandths
Round(x, ndigits) ==
    LET q == Pow10(3 - ndigits) IN RoundHalfEven(x, q) * q

\* round(num / den * 100, 1), in tenths of a percent
RoundPct(num, den) == RoundHalfEven(num * 1000, den)

\* --------------------------------------------------------- string helpers
StartsWith(s, p) == Len(s) >= Len(p) /\ SubSeq(s, 1, Len(p)) = p

Last(s) == s[Len(s)]

\* str.endswith
EndsWith(s, p) == Len(s) >= Len(p) /\ SubSeq(s, Len(s) - Len(p) + 1, Len(s)) = p

\* df[col]: the column of a list of records
Column(df, col) == [i \in 1..Len(df) |-> df[i][col]]

\* Series.sum()
RECURSIVE SeqSum(_)
SeqSum(s) == IF s = <<>> THEN 0 ELSE s[1] + SeqSum(Tail(s))

\* str.split(sep): the list of segments between occurrences of sep
RECURSIVE SplitFrom(_, _, _, _)
SplitFrom(s, sep, i, cur) ==
    IF i > Len(s) THEN <<cur>>
    ELSE IF s[i] = sep THEN <<cur>> \o SplitFrom(s, sep, i + 1, <<>>)
    ELSE SplitFrom(s, sep, i + 1, Append(cur, s[i]))

Split(s, sep) == SplitFrom(s, sep, 1, <<>>)

\* zone[:-2]
ZoneRegion(zone) == SubSeq(zone, 1, Len(zone) - 2)

\* disk_type_url.split('/')[-1], the URL given as its path segments
TypeUrl(t) == <<"projects", "zones", "diskTypes", t>>
DiskTypeOf(url) == Last(url)

\* -------------------------------------------------------------- price table
SsdPrice == 170         \* 0.17 USD per GB per month
BalancedPrice == 100    \* 0.10 USD per GB per month

DISK_PRICES ==
    (UsWest1 :> ("pd-ssd" :> SsdPrice @@ "pd-balanced" :> BalancedPrice))
 @@ (Default :> ("pd-ssd" :> SsdPrice @@ "pd-balanced" :> BalancedPrice))

\* variant: DISK_PRICES.get(region, {}), a lookup without the default entry
RegionPricesNoFallback(region) ==
    IF region \in DOMAIN DISK_PRICES THEN DISK_PRICES[region] ELSE <<>>

\* DISK_PRICES.get(region, DISK_PRICES['default'])
RegionPrices(region) ==
    IF region \in DOMAIN DISK_PRICES THEN DISK_PRICES[region] ELSE DISK_PRICES[Default]

\* ------------------------------------------------------------------ state
VARIABLES
    prog,            \* entry point: "api" (main of the savings calculator),
                     \*   "lib" (calculate_savings + create_excel_report called
                     \*   on a caller's list), "csv" (new_report)
    pc,              \* position in the program
    fault,           \* the exception that ended the run, or NoFault
    log,             \* diagnostics printed so far
    us_west1_zones,  \* get_ssd_disk_data: zones to visit
    zi,              \* get_ssd_disk_data: index of the current zone
    disks_left,      \* get_ssd_disk_data: disks of the current listing not yet visited
    failed_zones,    \* zones whose disk listing raised (caught at line 95)
    aborted_zones,   \* zones abandoned at a malformed disk (caught at line 95)
    seen_types,      \* disk types met in the listings so far
    project,         \* the project queried: its zones and its instances
    lookup_failed,   \* disks (zone, name) whose instances().get raised (line 79)
    disk_data,       \* descriptors collected / passed to calculate_savings
    ci,              \* calculate_savings: index of the descriptor the loop stopped at
    savings_data,    \* calculate_savings: records produced so far
    summarized,      \* the summary step has been entered
    summary,         \* the summary block of the report, or NoSummary
    files,           \* output artifacts present on disk
    rows_left,       \* new_report: rows of the CSV not yet visited
    zone,            \* new_report: the local variable `zone`
    csv_disk_data,   \* new_report: records produced so far (disk_data)
    csv_non_ssd,     \* new_report: non-SSD type columns of disks turned into records
    inv_zones,       \* get_vm_disk_data: zones to visit
    inv_zi,          \* get_vm_disk_data: index of the current zone
    vm_disk_data,    \* get_vm_disk_data: records collected so far
    ws,              \* inventory report: the cells of the sheet, (row, column) -> value
    vm_to_row,       \* inventory report: VM name -> row
    row_num,         \* inventory report: next free row
    row_of,          \* index of a record of vm_disk_data -> the row it was written on
    overwritten      \* cells that were written while already holding a value

vars == <<prog, pc, fault, log, us_west1_zones, zi, disks_left, failed_zones,
          aborted_zones,
          seen_types, project, lookup_failed, disk_data, ci, savings_data, summarized, summary, files,
          rows_left, zone, csv_disk_data, csv_non_ssd,
          inv_zones, inv_zi, vm_disk_data, ws, vm_to_row, row_num, row_of,
          overwritten>>

apiVars == <<us_west1_zones, zi, disks_left, failed_zones, aborted_zones,
            seen_types, project, lookup_failed>>
calcVars == <<ci, savings_data>>
csvVars == <<rows_left, zone, csv_disk_data, csv_non_ssd>>
invVars == <<inv_zones, inv_zi, vm_disk_data, ws, vm_to_row, row_num, row_of,
            overwritten>>

NoSummary == [count |-> -1]

\* the instances of a project: instance name -> the attached disks that
\* instances().get returns for it
InstanceName == "vm1"
NoInstances == [n \in {} |-> <<>>]

\* a function without arguments: a sheet without cells, an empty dict
Empty == [x \in {} |-> 0]

\* the 'source' URL of an attached disk
SourceUrl(name) == <<"d","i","s","k","s","/">> \o name

Progs == {"api", "lib", "csv"}

Init ==
    /\ prog \in Progs
    /\ pc = "start"
    /\ fault = NoFault
    /\ log = {}
    /\ us_west1_zones = <<>>
    /\ zi = 1
    /\ disks_left = 0
    /\ failed_zones = {}
    /\ aborted_zones = {}
    /\ seen_types = {}
    /\ project = [zones |-> ZoneNames, instances |-> NoInstances]
    /\ lookup_failed = {}
    /\ disk_data = <<>>
    /\ ci = 1
    /\ savings_data = <<>>
    /\ summarized = FALSE
    /\ summary = NoSummary
    /\ files = {}
    /\ rows_left = 0
    /\ zone = Unbound
    /\ inv_zones = <<>>
    /\ inv_zi = 1
    /\ vm_disk_data = <<>>
    /\ ws = Empty
    /\ vm_to_row = Empty
    /\ row_num = 2
    /\ row_of = Empty
    /\ overwritten = {}
    /\ csv_disk_data = <<>>
    /\ csv_non_ssd = {}

\* ---------------------------------------------- get_ssd_disk_data (API)
\* Orderings of subsets of the zone names: the response of zones().list
RECURSIVE SeqsOver(_)
SeqsOver(S) ==
    {<<>>} \cup UNION {{<<x>> \o t : t \in SeqsOver(S \ {x})} : x \in S}

\* one item of a disks().list response; users is the instance named by the
\* first user URL (lines 62-64 and 82), or NoUsers
RawDisks ==
    [type : {TypeUrl(t) : t \in DiskTypes}, sizeGb : Sizes \cup {MissingSize},
     users : {NoUsers} \cup DOMAIN project.instances]

\* lines 75-78: the instance has an attached disk whose source ends with the
\* disk's name and whose boot flag is set
IsBoot(instance_disks, disk_name) ==
    \E i \in 1..Len(instance_disks) :
        EndsWith(instance_disks[i].source, disk_name) /\ instance_disks[i].boot

\* lines 85-93: the descriptor appended for an SSD disk
Descriptor(disk, z, attached_to, is_boot) ==
    [Disk_Name |-> disk.name,
     Disk_Type |-> DiskTypeOf(disk.type),
     Disk_Size_GB |-> disk.sizeGb,
     Zone |-> z,
     Region |-> ZoneRegion(z),
     Attached_To |-> attached_to,
     Is_Boot_Disk |-> IF is_boot THEN "Yes" ELSE "No"]

\* line 52: the SSD filter
IsSsd(disk) == DiskTypeOf(disk.type) = "pd-ssd"

\* lines 27-37: list the zones, keep those of us-west1
ListZones ==
    /\ prog = "api" /\ pc = "start"
    /\ \/ /\ pc' = "crashed"                 \* zones().list raises, uncaught
          /\ fault' = "CollectorError"
          /\ UNCHANGED us_west1_zones
       \/ \E zones \in SeqsOver(project.zones) :
            /\ us_west1_zones' = SelectSeq(zones, LAMBDA z : StartsWith(z, UsWest1Prefix))
            /\ pc' = "zone_loop"
            /\ UNCHANGED fault
    /\ UNCHANGED <<prog, log, zi, disks_left, failed_zones, aborted_zones,
                   seen_types, project, lookup_failed, disk_data, calcVars,
                   summarized, summary, files, csvVars>>
    /\ UNCHANGED invVars

\* variant: no try/except around the listing, a failed listing ends the run
ListDisksFatal ==
    /\ prog = "api" /\ pc = "zone_loop" /\ zi <= Len(us_west1_zones)
    /\ \/ /\ failed_zones' = failed_zones \cup {us_west1_zones[zi]}
          /\ fault' = "CollectorError"
          /\ pc' = "crashed"
          /\ UNCHANGED <<zi, disks_left>>
       \/ \E n \in 0..MaxDisks :
            /\ disks_left' = n
            /\ IF n = 0 THEN zi' = zi + 1 /\ pc' = "zone_loop"
                        ELSE zi' = zi /\ pc' = "disk_loop"
            /\ UNCHANGED <<failed_zones, fault>>
    /\ UNCHANGED <<prog, log, us_west1_zones, aborted_zones, seen_types,
                   project, lookup_failed, disk_data, calcVars, summarized,
                   summary, files, csvVars>>
    /\ UNCHANGED invVars

\* lines 40-44: list the disks of the next zone
ListDisks ==
    /\ prog = "api" /\ pc = "zone_loop" /\ zi <= Len(us_west1_zones)
    /\ \/ /\ failed_zones' = failed_zones \cup {us_west1_zones[zi]}  \* line 95
          /\ log' = log \cup {"Error processing zone"}
          /\ zi' = zi + 1
          /\ UNCHANGED <<pc, disks_left>>
       \/ \E n \in 0..MaxDisks :
            /\ disks_left' = n
            /\ IF n = 0 THEN zi' = zi + 1 /\ pc' = "zone_loop"
                        ELSE zi' = zi /\ pc' = "disk_loop"
            /\ UNCHANGED <<failed_zones, log>>
    /\ UNCHANGED <<prog, fault, us_west1_zones, aborted_zones, seen_types,
                   project, lookup_failed, disk_data, calcVars, summarized,
                   summary, files, csvVars>>
    /\ UNCHANGED invVars

\* lines 46-93: one disk of the current listing
ProcessDisk ==
    /\ prog = "api" /\ pc = "disk_loop" /\ disks_left > 0
    /\ \E item \in RawDisks, get_ok \in BOOLEAN :
         LET z == us_west1_zones[zi]
             disk == [name |-> DiskNames[disks_left], type |-> item.type,
                      sizeGb |-> item.sizeGb, users |-> item.users]
             attached_to == IF disk.users = NoUsers THEN NotAttached ELSE disk.users
             \* lines 68-80: instances().get returned and the loop found a match
             is_boot == /\ disk.users # NoUsers
                        /\ get_ok
                        /\ IsBoot(project.instances[disk.users], disk.name)
         IN
         /\ seen_types' = seen_types \cup {DiskTypeOf(disk.type)}
         /\ IF IsSsd(disk) /\ disk.sizeGb = MissingSize
            THEN \* int(disk['sizeGb']) raises; caught at line 95, zone abandoned
                 /\ aborted_zones' = aborted_zones \cup {z}
                 /\ log' = log \cup {"Error processing zone"}
                 /\ disks_left' = 0
                 /\ zi' = zi + 1
                 /\ pc' = "zone_loop"
                 /\ UNCHANGED <<disk_data, lookup_failed>>
            ELSE /\ disk_data' = IF IsSsd(disk)
                                 THEN Append(disk_data,
                                             Descriptor(disk, z, attached_to, is_boot))
                                 ELSE disk_data
                 /\ IF IsSsd(disk) /\ disk.users # NoUsers /\ ~get_ok
                    THEN /\ lookup_failed' = lookup_failed \cup {<<z, disk.name>>}
                         /\ log' = log \cup {"Error checking if disk is boot disk"}
                    ELSE UNCHANGED <<lookup_failed, log>>
                 /\ disks_left' = disks_left - 1
                 /\ IF disks_left = 1 THEN zi' = zi + 1 /\ pc' = "zone_loop"
                                      ELSE zi' = zi /\ pc' = "disk_loop"
                 /\ UNCHANGED aborted_zones
    /\ UNCHANGED <<prog, fault, us_west1_zones, failed_zones, project, calcVars,
                   summarized, summary, files, csvVars>>
    /\ UNCHANGED invVars

\* lines 238-245: main, after get_ssd_disk_data returned
Main ==
    /\ prog = "api" /\ pc = "zone_loop" /\ zi > Len(us_west1_zones)
    /\ IF disk_data # <<>>
       THEN pc' = "calc" /\ UNCHANGED log
       ELSE pc' = "done" /\ log' = log \cup {"No SSD disks found in the project."}
    /\ UNCHANGED <<prog, fault, apiVars, disk_data, calcVars, summarized,
                   summary, files, csvVars>>
    /\ UNCHANGED invVars

\* ------------------------------------------------------ calculate_savings
\* descriptors a caller may pass to calculate_savings
LibRegions == {UsWest1, EuWest9, MissingRegion}

LibRegionZone(r) == IF r = MissingRegion THEN UsWest1A ELSE r \o <<"-","a">>

LibDescriptors ==
    {[Disk_Name |-> D1, Disk_Type |-> t, Disk_Size_GB |-> sz,
      Zone |-> LibRegionZone(r), Region |-> r,
      Attached_To |-> NotAttached, Is_Boot_Disk |-> "No"] :
        t \in {"pd-ssd", "pd-standard"}, sz \in Sizes \cup {MissingSize}, r \in LibRegions}

\* the caller's call calculate_savings(disk_data)
CallCalculateSavings ==
    /\ prog = "lib" /\ pc = "start"
    /\ \E n \in 0..MaxDisks : \E input \in [1..n -> LibDescriptors] :
         /\ disk_data' = input
         /\ pc' = "calc"
    /\ UNCHANGED <<prog, fault, log, apiVars, calcVars, summarized, summary,
                   files, csvVars>>
    /\ UNCHANGED invVars

\* the exception one iteration of the loop (lines 105-131) raises, if any
CalcFault(disk) ==
    IF disk.Region = MissingRegion THEN "KeyError: Region"                   \* line 105
    ELSE IF disk.Disk_Size_GB = MissingSize THEN "KeyError: Disk Size (GB)"  \* line 106
    ELSE IF "pd-ssd" \notin DOMAIN RegionPrices(disk.Region)
         THEN "KeyError: pd-ssd"                                       \* line 112
    ELSE IF "pd-balanced" \notin DOMAIN RegionPrices(disk.Region)
         THEN "KeyError: pd-balanced"                                  \* line 113
    ELSE IF disk.Disk_Size_GB * RegionPrices(disk.Region)["pd-ssd"] = 0
         THEN "ZeroDivisionError"                                      \* line 130
    ELSE NoFault

\* line 115
AnnualSavings(monthly_savings) == monthly_savings * 12

\* lines 109-131: the record appended for a descriptor
SavingsRecord(disk) ==
    LET region_prices == RegionPrices(disk.Region)
        size_gb == disk.Disk_Size_GB
        current_cost == size_gb * region_prices["pd-ssd"]
        balanced_cost == size_gb * region_prices["pd-balanced"]
        monthly_savings == current_cost - balanced_cost
        annual_savings == AnnualSavings(monthly_savings)
    IN  [Disk_Name |-> disk.Disk_Name,
         Disk_Type |-> disk.Disk_Type,
         Disk_Size_GB |-> size_gb,
         Zone |-> disk.Zone,
         Region |-> disk.Region,
         Attached_To |-> disk.Attached_To,
         Is_Boot_Disk |-> disk.Is_Boot_Disk,
         Current_Monthly_Cost |-> Round(current_cost, 2),
         Balanced_Monthly_Cost |-> Round(balanced_cost, 2),
         Monthly_Savings |-> Round(monthly_savings, 2),
         Annual_Savings |-> Round(annual_savings, 2),
         Savings_Percentage |-> RoundPct(monthly_savings, current_cost)]

\* the index of the first descriptor at which the loop raises, 0 if none
RECURSIVE FirstFault(_, _)
FirstFault(data, i) ==
    IF i > Len(data) THEN 0
    ELSE IF CalcFault(data[i]) # NoFault THEN i
    ELSE FirstFault(data, i + 1)

\* lines 100-133: calculate_savings(disk_data)
CalculateSavings ==
    /\ prog \in {"api", "lib"} /\ pc = "calc"
    /\ LET k == FirstFault(disk_data, 1) IN
       IF k # 0
       THEN /\ fault' = CalcFault(disk_data[k])       \* raised, nothing is returned
            /\ pc' = "crashed"
            /\ ci' = k
            /\ savings_data' = [i \in 1..(k - 1) |-> SavingsRecord(disk_data[i])]
       ELSE /\ savings_data' = [i \in 1..Len(disk_data) |-> SavingsRecord(disk_data[i])]
            /\ ci' = Len(disk_data) + 1
            /\ pc' = "report"
            /\ UNCHANGED fault
    /\ UNCHANGED <<prog, log, apiVars, disk_data, summarized, summary, files,
                   csvVars>>
    /\ UNCHANGED invVars

\* --------------------------------- create_excel_report (savings calculator)
\* variant: the running totals are assigned, not accumulated
SummarizeLastWins(data) ==
    LET last == data[Len(data)]
    IN  [count |-> Len(data),
         total_disk_size |-> last.Disk_Size_GB,
         current_cost |-> Round(last.Current_Monthly_Cost, 2),
         balanced_cost |-> Round(last.Balanced_Monthly_Cost, 2),
         monthly_savings |-> Round(last.Monthly_Savings, 2),
         annual_savings |-> Round(last.Annual_Savings, 2),
         pct |-> IF last.Current_Monthly_Cost > 0
                 THEN RoundPct(last.Monthly_Savings, last.Current_Monthly_Cost)
                 ELSE 0]

\* lines 145-150 and 169-177: the summary block
Summarize(data) ==
    LET total_monthly_savings == SeqSum(Column(data, "Monthly_Savings"))
        total_annual_savings == SeqSum(Column(data, "Annual_Savings"))
        total_current_cost == SeqSum(Column(data, "Current_Monthly_Cost"))
        total_balanced_cost == SeqSum(Column(data, "Balanced_Monthly_Cost"))
        total_disk_size == SeqSum(Column(data, "Disk_Size_GB"))
    IN  [count |-> Len(data),
         total_disk_size |-> total_disk_size,
         current_cost |-> Round(total_current_cost, 2),
         balanced_cost |-> Round(total_balanced_cost, 2),
         monthly_savings |-> Round(total_monthly_savings, 2),
         annual_savings |-> Round(total_annual_savings, 2),
         pct |-> IF total_current_cost > 0
                 THEN RoundPct(total_monthly_savings, total_current_cost)
                 ELSE 0]

XlsxReport == "us_west1_disk_savings_report.xlsx"

\* lines 135-232
CreateExcelReport ==
    /\ prog \in {"api", "lib"} /\ pc = "report"
    /\ summarized' = TRUE
    /\ IF savings_data = <<>>
       THEN /\ log' = log \cup {"No SSD disks found."}       \* returns False
            /\ pc' = "done"
            /\ UNCHANGED <<summary, files, fault>>
       ELSE /\ summary' = Summarize(savings_data)
            /\ \/ /\ files' = files \cup {XlsxReport}        \* wb.save
                  /\ pc' = "done"
                  /\ UNCHANGED fault
               \/ /\ fault' = "RenderError"                  \* wb.save raises
                  /\ pc' = "crashed"
                  /\ UNCHANGED files
            /\ UNCHANGED log
    /\ UNCHANGED <<prog, apiVars, disk_data, calcVars, csvVars>>
    /\ UNCHANGED invVars

\* ------------------------------- calculate_disk_conversion_savings (CSV)
CsvZones == {UsWest1A, UsEast1B}
CsvTypes == {"pd-ssd", "pd-standard"}
savings_percentage == 412          \* 41.2 %

\* the disk cells of a row: absent ('No Record') or a type and a size
CsvDisks == {[type |-> NoRecord, size |-> NoRecordSize]} \cup [type : CsvTypes, size : Sizes]

\* rows of the input sheet (columns of the standard disk inventory report)
CsvRows ==
    {[VM_Name |-> "vm1", Zone |-> z,
      Boot_Disk_Name |-> IF b.size = NoRecordSize THEN NoRecord ELSE "d1",
      Boot_Disk_Type |-> b.type, Boot_Disk_Size_GB |-> b.size,
      Additional_Disk_Name |-> IF a.size = NoRecordSize THEN NoRecord ELSE "xd1",
      Additional_Disk_Type |-> a.type, Additional_Disk_Size_GB |-> a.size] :
        z \in CsvZones, b \in CsvDisks, a \in CsvDisks}

\* zone.split('-')[0] + '-' + zone.split('-')[1]
CsvRegion(z) == Split(z, "-")[1] \o <<"-">> \o Split(z, "-")[2]

\* lines 41 and 66
CsvMonthlySavings(current_monthly_cost, balanced_monthly_cost) ==
    Round(current_monthly_cost - balanced_monthly_cost, 1)

\* variant: the annual savings recomputed from the size, not from the stored
\* monthly savings
CsvRecordDrift(name, size, is_boot_disk, attached_to, z, region) ==
    LET current_monthly_cost == Round(size * SsdPrice, 1)
        balanced_monthly_cost == Round(size * BalancedPrice, 1)
        monthly_savings == CsvMonthlySavings(current_monthly_cost, balanced_monthly_cost)
        annual_savings == Round(size * (SsdPrice - BalancedPrice) * 12, 1)
    IN  [Disk_Name |-> name,
         Disk_Size_GB |-> size,
         Is_Boot_Disk |-> is_boot_disk,
         Attached_To |-> attached_to,
         Zone |-> z,
         Region |-> region,
         Current_Monthly_Cost |-> current_monthly_cost,
         Balanced_Monthly_Cost |-> balanced_monthly_cost,
         Monthly_Savings |-> monthly_savings,
         Annual_Savings |-> annual_savings,
         Savings_Percentage |-> savings_percentage]

\* lines 38-56 and 63-81: the record appended for one disk
CsvRecord(name, size, is_boot_disk, attached_to, z, region) ==
    LET current_monthly_cost == Round(size * SsdPrice, 1)
        balanced_monthly_cost == Round(size * BalancedPrice, 1)
        monthly_savings == CsvMonthlySavings(current_monthly_cost, balanced_monthly_cost)
        annual_savings == Round(monthly_savings * 12, 1)
    IN  [Disk_Name |-> name,
         Disk_Size_GB |-> size,
         Is_Boot_Disk |-> is_boot_disk,
         Attached_To |-> attached_to,
         Zone |-> z,
         Region |-> region,
         Current_Monthly_Cost |-> current_monthly_cost,
         Balanced_Monthly_Cost |-> balanced_monthly_cost,
         Monthly_Savings |-> monthly_savings,
         Annual_Savings |-> annual_savings,
         Savings_Percentage |-> savings_percentage]

\* lines 7-12: read the input sheet
ReadCsv ==
    /\ prog = "csv" /\ pc = "start"
    /\ \/ /\ fault' = "ReadError"                 \* caught; returns None
          /\ log' = log \cup {"Error reading file"}
          /\ pc' = "done"
          /\ UNCHANGED rows_left
       \/ \E n \in 0..MaxRows :
            /\ rows_left' = n
            /\ pc' = IF n = 0 THEN "summarize" ELSE "row_loop"
            /\ UNCHANGED <<fault, log>>
    /\ UNCHANGED <<prog, apiVars, disk_data, calcVars, summarized, summary,
                   files, zone, csv_disk_data, csv_non_ssd>>
    /\ UNCHANGED invVars

\* lines 28-81: one row of the sheet
ProcessRow ==
    /\ prog = "csv" /\ pc = "row_loop" /\ rows_left > 0
    /\ \E row \in CsvRows :
         LET hasBoot == row.Boot_Disk_Size_GB # NoRecordSize
             hasAdd == row.Additional_Disk_Name # NoRecord
             zone1 == IF hasBoot THEN row.Zone ELSE zone
             bootFault == IF hasBoot /\ Len(Split(row.Zone, "-")) < 2
                          THEN "IndexError" ELSE NoFault
             bootRecs == IF hasBoot /\ bootFault = NoFault
                         THEN <<CsvRecord(row.Boot_Disk_Name, row.Boot_Disk_Size_GB,
                                          "Yes", row.VM_Name, row.Zone,
                                          CsvRegion(row.Zone))>>
                         ELSE <<>>
             bootTypes == IF bootRecs = <<>> THEN {} ELSE {row.Boot_Disk_Type} \ {"pd-ssd"}
             addFault == IF ~hasAdd THEN NoFault
                         ELSE IF zone1 = Unbound THEN "UnboundLocalError"
                         ELSE IF Len(Split(zone1, "-")) < 2 THEN "IndexError"
                         ELSE NoFault
         IN  /\ zone' = zone1
             /\ IF bootFault # NoFault
                THEN /\ fault' = bootFault
                     /\ pc' = "crashed"
                     /\ UNCHANGED <<csv_disk_data, csv_non_ssd, rows_left>>
                ELSE IF addFault # NoFault
                THEN /\ fault' = addFault
                     /\ pc' = "crashed"
                     /\ csv_disk_data' = csv_disk_data \o bootRecs
                     /\ csv_non_ssd' = csv_non_ssd \cup bootTypes
                     /\ UNCHANGED rows_left
                ELSE /\ csv_disk_data' = csv_disk_data \o bootRecs \o
                          (IF hasAdd
                           THEN <<CsvRecord(row.Additional_Disk_Name,
                                            row.Additional_Disk_Size_GB, "No",
                                            row.VM_Name, row.Zone, CsvRegion(zone1))>>
                           ELSE <<>>)
                     /\ csv_non_ssd' = csv_non_ssd \cup bootTypes \cup
                          (IF hasAdd THEN {row.Additional_Disk_Type} \ {"pd-ssd"} ELSE {})
                     /\ rows_left' = rows_left - 1
                     /\ pc' = IF rows_left = 1 THEN "summarize" ELSE "row_loop"
                     /\ UNCHANGED fault
    /\ UNCHANGED <<prog, log, apiVars, disk_data, calcVars, summarized, summary,
                   files>>
    /\ UNCHANGED invVars

\* lines 87-115: the summary block
CsvSummarize(output_df) ==
    LET total_disk_size == SeqSum(Column(output_df, "Disk_Size_GB"))
        current_monthly_cost == SeqSum(Column(output_df, "Current_Monthly_Cost"))
        balanced_monthly_cost == SeqSum(Column(output_df, "Balanced_Monthly_Cost"))
        potential_monthly_savings == SeqSum(Column(output_df, "Monthly_Savings"))
        potential_annual_savings == SeqSum(Column(output_df, "Annual_Savings"))
    IN  [count |-> Len(output_df),
         total_disk_size |-> total_disk_size,
         current_cost |-> Round(current_monthly_cost, 2),
         balanced_cost |-> Round(balanced_monthly_cost, 2),
         monthly_savings |-> Round(potential_monthly_savings, 2),
         annual_savings |-> Round(potential_annual_savings, 0),
         pct |-> savings_percentage]

DetailsCsv == "disk_conversion_details.csv"
ConversionXlsx == "US-West1_SSD_to_Balanced_Conversion_Report.xlsx"

\* lines 84-158: the summary, the details CSV (line 119), the workbook
\* (lines 122-147)
CsvReport ==
    /\ prog = "csv" /\ pc = "summarize"
    /\ summarized' = TRUE
    /\ IF csv_disk_data = <<>>
       THEN /\ fault' = "KeyError: Disk Size (GB)"   \* frame without columns, line 88
            /\ pc' = "crashed"
            /\ UNCHANGED <<summary, files>>
       ELSE /\ summary' = CsvSummarize(csv_disk_data)
            /\ \/ /\ fault' = "RenderError"          \* to_csv raises
                  /\ pc' = "crashed"
                  /\ UNCHANGED files
               \/ /\ fault' = "RenderError"          \* the workbook step raises
                  /\ pc' = "crashed"
                  /\ files' = files \cup {DetailsCsv}
               \/ /\ files' = files \cup {DetailsCsv, ConversionXlsx}
                  /\ pc' = "done"
                  /\ UNCHANGED fault
    /\ UNCHANGED <<prog, log, apiVars, disk_data, calcVars, csvVars>>
    /\ UNCHANGED invVars

\* ---------------------------------------------------------- specification
Next ==
    \/ ListZones
    \/ ListDisks
    \/ ProcessDisk
    \/ Main
    \/ CallCalculateSavings
    \/ CalculateSavings
    \/ CreateExcelReport
    \/ ReadCsv
    \/ ProcessRow
    \/ CsvReport

Spec == Init /\ [][Next]_vars

\* ------------------------------------- the summary steps on their own
\* The two summary steps applied to record sequences given directly.
MaxRecords == 3    \* records of one summarized sequence

\* records of calculate_savings (a size of 0 yields no record)
ApiRecords ==
    {SavingsRecord([Disk_Name |-> D1, Disk_Type |-> "pd-ssd", Disk_Size_GB |-> sz,
                    Zone |-> UsWest1A, Region |-> UsWest1,
                    Attached_To |-> NotAttached, Is_Boot_Disk |-> "No"]) :
        sz \in Sizes \ {0}}

\* records of calculate_disk_conversion_savings
CsvRecords ==
    {CsvRecord("d1", sz, "Yes", "vm1", UsWest1A, CsvRegion(UsWest1A)) : sz \in Sizes}

SumInit ==
    /\ prog \in {"lib", "csv"}
    /\ pc = IF prog = "csv" THEN "summarize" ELSE "report"
    /\ \E n \in 0..MaxRecords :
         /\ savings_data \in IF prog = "lib" THEN [1..n -> ApiRecords] ELSE {<<>>}
         /\ csv_disk_data \in IF prog = "csv" THEN [1..n -> CsvRecords] ELSE {<<>>}
    /\ fault = NoFault
    /\ log = {}
    /\ us_west1_zones = <<>>
    /\ zi = 1
    /\ disks_left = 0
    /\ failed_zones = {}
    /\ aborted_zones = {}
    /\ seen_types = {}
    /\ project = [zones |-> ZoneNames, instances |-> NoInstances]
    /\ lookup_failed = {}
    /\ disk_data = <<>>
    /\ ci = 1
    /\ summarized = FALSE
    /\ summary = NoSummary
    /\ files = {}
    /\ rows_left = 0
    /\ zone = Unbound
    /\ inv_zones = <<>>
    /\ inv_zi = 1
    /\ vm_disk_data = <<>>
    /\ ws = Empty
    /\ vm_to_row = Empty
    /\ row_num = 2
    /\ row_of = Empty
    /\ overwritten = {}
    /\ csv_non_ssd = {}

SumNext == CreateExcelReport \/ CsvReport

SpecSummarize == SumInit /\ [][SumNext]_vars

\* ------------------------------ get_ssd_disk_data on attached disks
\* The API-driven report on a project of one us-west1 zone whose instance
\* vm1 has up to two attached disks.
AttachedDisks == [source : {SourceUrl(D1), SourceUrl(XD1)}, boot : BOOLEAN]

AttachedLists == UNION {[1..n -> AttachedDisks] : n \in {0, 1, 2}}

BootInit ==
    /\ prog = "api"
    /\ pc = "start"
    /\ fault = NoFault
    /\ log = {}
    /\ us_west1_zones = <<>>
    /\ zi = 1
    /\ disks_left = 0
    /\ failed_zones = {}
    /\ aborted_zones = {}
    /\ seen_types = {}
    /\ \E l \in AttachedLists :
          project = [zones |-> {UsWest1A},
                     instances |-> [n \in {InstanceName} |-> l]]
    /\ lookup_failed = {}
    /\ disk_data = <<>>
    /\ ci = 1
    /\ savings_data = <<>>
    /\ summarized = FALSE
    /\ summary = NoSummary
    /\ files = {}
    /\ rows_left = 0
    /\ zone = Unbound
    /\ inv_zones = <<>>
    /\ inv_zi = 1
    /\ vm_disk_data = <<>>
    /\ ws = Empty
    /\ vm_to_row = Empty
    /\ row_num = 2
    /\ row_of = Empty
    /\ overwritten = {}
    /\ csv_disk_data = <<>>
    /\ csv_non_ssd = {}

BootNext ==
    \/ ListZones
    \/ ListDisks
    \/ ProcessDisk
    \/ Main
    \/ CalculateSavings
    \/ CreateExcelReport

SpecBoot == BootInit /\ [][BootNext]_vars

\* ------------------------------------------ gcp_standard_disk_inventory
MaxVms == 1        \* instances returned by one instances().list

InvZoneNames == {UsWest1A, UsEast1B}
VmNames == {"vm1", "vm2"}
InvTypes == {"pd-standard", "pd-ssd"}
InvSizes == {10}
InvDiskNames == <<"disk0", "disk1", "disk2">>     \* by position on the instance
AttachedCounts == {1, 2, 3}

\* an instance of an instances().list response: its name and the types of its
\* attached disks, the boot disk first
Instances ==
    [name : VmNames, types : UNION {[1..n -> InvTypes] : n \in AttachedCounts}]

\* the responses of instances().list: instance names are unique in a zone
InstanceLists ==
    UNION {{l \in [1..n -> Instances] :
              \A i \in 1..n : \A j \in 1..n : l[i].name = l[j].name => i = j} :
           n \in 0..MaxVms}

\* lines 39-73: the attached disks of an instance as records, whatever the type
AttachedOf(instance, z, size) ==
    [j \in 1..Len(instance.types) |->
        [VM_Name |-> instance.name,
         Boot_Disk |-> IF j = 1 THEN "Yes" ELSE "No",
         Disk_Name |-> InvDiskNames[j],
         Disk_Type |-> instance.types[j],
         Disk_Size_GB |-> size,
         Zone |-> z]]

\* lines 35-73: the attached disks of the instances of a zone, in visiting order
RECURSIVE AttachedOfAll(_, _, _)
AttachedOfAll(instances, z, size) ==
    IF instances = <<>> THEN <<>>
    ELSE AttachedOf(instances[1], z, size) \o AttachedOfAll(Tail(instances), z, size)

\* line 62: the filter on the disk type
IsStandard(r) == r.Disk_Type = "pd-standard"

\* lines 22-24: list the zones; every zone is visited
InvListZones ==
    /\ prog = "inv" /\ pc = "start"
    /\ \/ /\ pc' = "crashed"                 \* zones().list raises, uncaught
          /\ fault' = "CollectorError"
          /\ UNCHANGED inv_zones
       \/ \E zones \in SeqsOver(project.zones) :
            /\ inv_zones' = zones
            /\ pc' = "inv_zone_loop"
            /\ UNCHANGED fault
    /\ UNCHANGED <<prog, log, apiVars, disk_data, calcVars, summarized, summary,
                   files, csvVars, inv_zi, vm_disk_data, ws, vm_to_row, row_num,
                   row_of, overwritten>>

\* lines 30-76: one zone. The listing raises, or the disks of its instances
\* are visited in order until disks().get raises (after k disks) or to the end.
InvProcessZone ==
    /\ prog = "inv" /\ pc = "inv_zone_loop" /\ inv_zi <= Len(inv_zones)
    /\ \/ /\ log' = log \cup {"Error processing zone"}      \* instances().list raises
          /\ UNCHANGED vm_disk_data
       \/ \E instances \in InstanceLists, size \in InvSizes :
            LET all == AttachedOfAll(instances, inv_zones[inv_zi], size) IN
            \E k \in 0..Len(all) :
               /\ vm_disk_data' = vm_disk_data \o SelectSeq(SubSeq(all, 1, k), IsStandard)
               /\ log' = IF k < Len(all) THEN log \cup {"Error processing zone"} ELSE log
    /\ inv_zi' = inv_zi + 1
    /\ UNCHANGED <<prog, pc, fault, apiVars, disk_data, calcVars, summarized,
                   summary, files, csvVars, inv_zones, ws, vm_to_row, row_num,
                   row_of, overwritten>>

\* lines 179-189: main, after get_vm_disk_data returned
InvMain ==
    /\ prog = "inv" /\ pc = "inv_zone_loop" /\ inv_zi > Len(inv_zones)
    /\ IF vm_disk_data # <<>>
       THEN pc' = "inv_report" /\ UNCHANGED log
       ELSE pc' = "done"
            /\ log' = log \cup {"No VMs with standard persistent disks found."}
    /\ UNCHANGED <<prog, fault, apiVars, disk_data, calcVars, summarized, summary,
                   files, csvVars, invVars>>

\* lines 102-111
headers ==
    <<"VM Name", "Boot Disk Name", "Boot Disk Type", "Boot Disk Size (GB)",
      "Additional Disk Name", "Additional Disk Type", "Additional Disk Size (GB)",
      "Zone">>

\* ws.cell(row, column).value = value, on the layout state st
WriteCell(st, row, column, value) ==
    [st EXCEPT !.ws = (<<row, column>> :> value) @@ @,
               !.overwritten = IF <<row, column>> \in DOMAIN st.ws
                               THEN @ \cup {<<row, column>>} ELSE @]

\* the assignments of one branch, cells a sequence of <<column, value>>
RECURSIVE WriteCells(_, _, _)
WriteCells(st, row, cells) ==
    IF Len(cells) = 0 THEN st
    ELSE WriteCells(WriteCell(st, row, cells[1][1], cells[1][2]), row, Tail(cells))

\* lines 113-118 and 125-126: the header row, the empty dict, the first data row
HeaderSheet ==
    [ws |-> [c \in {<<1, k>> : k \in 1..Len(headers)} |-> headers[c[2]]],
     vm_to_row |-> Empty,
     row_num |-> 2,
     row_of |-> Empty,
     overwritten |-> {}]

\* lines 129-140: the boot-disk record data[i]
BootRow(st, data, i) ==
    LET boot_row == data[i]
        vm_name == boot_row.VM_Name
        st1 == [st EXCEPT !.vm_to_row = (vm_name :> st.row_num) @@ @,
                          !.row_of = (i :> st.row_num) @@ @]
        st2 == WriteCells(st1, st.row_num,
                          << <<1, vm_name>>, <<2, boot_row.Disk_Name>>,
                             <<3, boot_row.Disk_Type>>, <<4, boot_row.Disk_Size_GB>>,
                             <<8, boot_row.Zone>> >>)
    IN  [st2 EXCEPT !.row_num = @ + 1]

\* lines 143-172: the additional-disk record data[i]
AdditionalRow(st, data, i) ==
    LET add_row == data[i]
        vm_name == add_row.VM_Name
        disk_cells == << <<5, add_row.Disk_Name>>, <<6, add_row.Disk_Type>>,
                         <<7, add_row.Disk_Size_GB>> >>
        new_row_cells == << <<1, vm_name>> >> \o disk_cells \o << <<8, add_row.Zone>> >>
    IN  IF vm_name \in DOMAIN st.vm_to_row
        THEN LET row == st.vm_to_row[vm_name] IN
             IF <<row, 5>> \in DOMAIN st.ws
             THEN \* lines 151-157: a new row for this VM
                  [WriteCells([st EXCEPT !.row_of = (i :> st.row_num) @@ @],
                              st.row_num, new_row_cells)
                      EXCEPT !.row_num = @ + 1]
             ELSE \* lines 159-162: the existing row
                  WriteCells([st EXCEPT !.row_of = (i :> row) @@ @], row, disk_cells)
        ELSE \* lines 164-171: additional disk without a boot disk
             [WriteCells([st EXCEPT !.vm_to_row = (vm_name :> st.row_num) @@ @,
                                    !.row_of = (i :> st.row_num) @@ @],
                         st.row_num, new_row_cells)
                 EXCEPT !.row_num = @ + 1]

\* the loop of lines 129-140 over the indices idxs
RECURSIVE BootRows(_, _, _)
BootRows(st, data, idxs) ==
    IF idxs = <<>> THEN st
    ELSE BootRows(BootRow(st, data, idxs[1]), data, Tail(idxs))

\* the loop of lines 143-172 over the indices idxs
RECURSIVE AdditionalRows(_, _, _)
AdditionalRows(st, data, idxs) ==
    IF idxs = <<>> THEN st
    ELSE AdditionalRows(AdditionalRow(st, data, idxs[1]), data, Tail(idxs))

\* lines 90-91 and 124-172: the sheet rendered for data
Layout(data) ==
    LET all == [i \in 1..Len(data) |-> i]
        boot_disks == SelectSeq(all, LAMBDA i : data[i].Boot_Disk = "Yes")
        additional_disks == SelectSeq(all, LAMBDA i : data[i].Boot_Disk = "No")
    IN  AdditionalRows(BootRows(HeaderSheet, data, boot_disks), data, additional_disks)

InventoryXlsx == "gcp_standard_disk_inventory.xlsx"

\* lines 80-177: create_excel_report(vm_disk_data)
InvCreateExcelReport ==
    /\ prog = "inv" /\ pc = "inv_report"
    /\ IF vm_disk_data = <<>>
       THEN /\ log' = log \cup {"No VMs with standard persistent disks found."}
            /\ pc' = "done"
            /\ UNCHANGED <<fault, files, ws, vm_to_row, row_num, row_of, overwritten>>
       ELSE LET st == Layout(vm_disk_data) IN
            /\ ws' = st.ws
            /\ vm_to_row' = st.vm_to_row
            /\ row_num' = st.row_num
            /\ row_of' = st.row_of
            /\ overwritten' = st.overwritten
            /\ \/ /\ files' = files \cup {InventoryXlsx}      \* wb.save
                  /\ pc' = "done"
                  /\ UNCHANGED fault
               \/ /\ fault' = "RenderError"                    \* wb.save raises
                  /\ pc' = "crashed"
                  /\ UNCHANGED files
            /\ UNCHANGED log
    /\ UNCHANGED <<prog, apiVars, disk_data, calcVars, summarized, summary,
                   csvVars, inv_zones, inv_zi, vm_disk_data>>

InvInit ==
    /\ prog = "inv"
    /\ pc = "start"
    /\ fault = NoFault
    /\ log = {}
    /\ us_west1_zones = <<>>
    /\ zi = 1
    /\ disks_left = 0
    /\ failed_zones = {}
    /\ aborted_zones = {}
    /\ seen_types = {}
    /\ project = [zones |-> InvZoneNames, instances |-> NoInstances]
    /\ lookup_failed = {}
    /\ disk_data = <<>>
    /\ ci = 1
    /\ savings_data = <<>>
    /\ summarized = FALSE
    /\ summary = NoSummary
    /\ files = {}
    /\ rows_left = 0
    /\ zone = Unbound
    /\ csv_disk_data = <<>>
    /\ csv_non_ssd = {}
    /\ inv_zones = <<>>
    /\ inv_zi = 1
    /\ vm_disk_data = <<>>
    /\ ws = Empty
    /\ vm_to_row = Empty
    /\ row_num = 2
    /\ row_of = Empty
    /\ overwritten = {}

InvNext ==
    \/ InvListZones
    \/ InvProcessZone
    \/ InvMain
    \/ InvCreateExcelReport

SpecInventory == InvInit /\ [][InvNext]_vars

\* ----------------------------------------------------------------- claims
\* the records the summary step of the running program reduces
Records == IF prog = "csv" THEN csv_disk_data ELSE savings_data

\* the summary step of the running program
SummaryOf(data) == IF prog = "csv" THEN CsvSummarize(data) ELSE Summarize(data)

ZeroSummary ==
    [count |-> 0, total_disk_size |-> 0, current_cost |-> 0, balanced_cost |-> 0,
     monthly_savings |-> 0, annual_savings |-> 0, pct |-> 0]

WellFormed(disk) == disk.Region # MissingRegion /\ disk.Disk_Size_GB # MissingSize

\* C1: a descriptor of size 0 GB is processed by calculate_savings without a
\* fault, its record has savings percentage 0, and the batch goes on.
C1_ZeroSizeYieldsZeroPct ==
    prog \in {"api", "lib"} =>
        /\ fault # "ZeroDivisionError"
        /\ \A i \in 1..Len(savings_data) :
              savings_data[i].Disk_Size_GB = 0 => savings_data[i].Savings_Percentage = 0

\* C2: the summary step on an empty record sequence raises no fault and
\* yields the all-zero summary, in the API-driven and the CSV-driven report.
C2_EmptySummaryAllZero ==
    (summarized /\ Records = <<>>) => (fault = NoFault /\ summary = ZeroSummary)

\* C3: the aggregate percentage of the summary of a finished report is total
\* monthly savings / total current cost * 100 over the records summarized,
\* in both reports.
C3_AggregatePctWeighted ==
    (pc = "done" /\ summary # NoSummary
       /\ SeqSum(Column(Records, "Current_Monthly_Cost")) > 0) =>
        summary.pct = RoundPct(SeqSum(Column(Records, "Monthly_Savings")),
                               SeqSum(Column(Records, "Current_Monthly_Cost")))

\* C4: in every emitted record the stored monthly savings are the stored
\* current cost minus the stored converted cost, and the stored annual
\* savings are twelve times the stored monthly savings.
C4_SavingsExact ==
    \A i \in 1..Len(Records) :
        /\ Records[i].Monthly_Savings =
              Records[i].Current_Monthly_Cost - Records[i].Balanced_Monthly_Cost
        /\ Records[i].Annual_Savings = Records[i].Monthly_Savings * 12

\* a CSV record whose stored current cost was changed by the rounding
C4_Witness ==
    /\ prog = "csv"
    /\ \E i \in 1..Len(csv_disk_data) :
          /\ csv_disk_data[i].Current_Monthly_Cost
                # csv_disk_data[i].Disk_Size_GB * SsdPrice
          /\ csv_disk_data[i].Monthly_Savings > 0

\* C5: a descriptor without size or region is skipped, the batch is not
\* aborted: calculate_savings returns a record for every well-formed
\* descriptor of its input.
C5_MalformedSkipped ==
    prog \in {"api", "lib"} =>
        /\ fault \notin {"KeyError: Region", "KeyError: Disk Size (GB)"}
        /\ pc \in {"report", "done"} =>
              Len(savings_data) = Len(SelectSeq(disk_data, WellFormed))

C7_NoOutputOnFailure == fault # NoFault => files = {}

\* C8: every record of the savings output was made from an SSD disk, on the
\* API-driven path and on the CSV-driven path.
C8_OnlySsdInOutput ==
    /\ prog = "api" =>
          \A i \in 1..Len(savings_data) : savings_data[i].Disk_Type = "pd-ssd"
    /\ prog = "csv" => csv_non_ssd = {}

\* C9: the summary does not depend on the order of the records: every
\* permutation of the sequence summarized gives the same summary.
C9_SummaryOrderIndependent ==
    summary # NoSummary =>
        \A p \in Permutations(1..Len(Records)) :
            SummaryOf([i \in 1..Len(Records) |-> Records[p[i]]]) = summary

\* a summary of at least two records of different sizes
C9_Witness ==
    /\ summary # NoSummary
    /\ \E i \in 1..Len(Records) : \E j \in 1..Len(Records) :
          Records[i].Disk_Size_GB # Records[j].Disk_Size_GB

\* C10: calculate_savings prices a descriptor whose region is not a key of
\* the price table with the default entry, a descriptor whose region is a
\* key with that region's entry, and the lookup never fails.
C10_RegionFallback ==
    prog \in {"api", "lib"} =>
        /\ fault \notin {"KeyError: pd-ssd", "KeyError: pd-balanced"}
        /\ \A i \in 1..Len(savings_data) :
              LET r == savings_data[i]
                  entry == IF r.Region \in DOMAIN DISK_PRICES
                           THEN DISK_PRICES[r.Region] ELSE DISK_PRICES[Default]
              IN  /\ r.Current_Monthly_Cost = r.Disk_Size_GB * entry["pd-ssd"]
                  /\ r.Balanced_Monthly_Cost = r.Disk_Size_GB * entry["pd-balanced"]

\* a record priced for a region that is not a key of the price table
C10_Witness ==
    \E i \in 1..Len(savings_data) :
        /\ savings_data[i].Region \notin DOMAIN DISK_PRICES
        /\ savings_data[i].Current_Monthly_Cost > 0

\* the cost of a record before any rounding: size times the unit price
ExactCost(r, type) ==
    r.Disk_Size_GB * (IF prog = "csv"
                      THEN (IF type = "pd-ssd" THEN SsdPrice ELSE BalancedPrice)
                      ELSE RegionPrices(r.Region)[type])

ExactColumn(data, type) == [i \in 1..Len(data) |-> ExactCost(data[i], type)]

\* C11: every total of the summary is the sum of the unrounded per-record
\* values, rounded once for presentation (the annual total of the CSV-driven
\* report to whole dollars, every other total to cents).
C11_TotalsRoundedOnce ==
    summary # NoSummary =>
        LET current == SeqSum(ExactColumn(Records, "pd-ssd"))
            balanced == SeqSum(ExactColumn(Records, "pd-balanced"))
        IN  /\ summary.current_cost = Round(current, 2)
            /\ summary.balanced_cost = Round(balanced, 2)
            /\ summary.monthly_savings = Round(current - balanced, 2)
            /\ summary.annual_savings =
                  Round((current - balanced) * 12, IF prog = "csv" THEN 0 ELSE 2)

\* s without its last sep-separated segment
RECURSIVE Join(_, _)
Join(parts, sep) ==
    IF parts = <<>> THEN <<>>
    ELSE IF Len(parts) = 1 THEN parts[1]
    ELSE parts[1] \o <<sep>> \o Join(Tail(parts), sep)

RemoveLastSegment(s, sep) ==
    LET parts == Split(s, sep) IN Join(SubSeq(parts, 1, Len(parts) - 1), sep)

\* C12: in every record emitted by get_ssd_disk_data and by
\* calculate_disk_conversion_savings, Region is the record's own Zone without
\* its last hyphen-separated segment, and producing the region of a row never
\* faults.
C12_RegionFromOwnZone ==
    /\ fault \notin {"UnboundLocalError", "IndexError"}
    /\ prog = "api" =>
          \A i \in 1..Len(disk_data) :
              disk_data[i].Region = RemoveLastSegment(disk_data[i].Zone, "-")
    /\ prog = "csv" =>
          \A i \in 1..Len(csv_disk_data) :
              csv_disk_data[i].Region = RemoveLastSegment(csv_disk_data[i].Zone, "-")

\* the instance lists that very disk as an attached disk with boot = true
ListsAsBoot(instance_disks, disk_name) ==
    \E i \in 1..Len(instance_disks) :
        instance_disks[i].source = SourceUrl(disk_name) /\ instance_disks[i].boot

\* C13: get_ssd_disk_data marks a disk 'Is Boot Disk' = Yes only if the
\* instance it is attached to lists that very disk as an attached disk with
\* boot = true; a disk with no attaching instance, or whose instance lookup
\* failed, is marked No.
C13_BootOnlyIfListedAsBoot ==
    prog = "api" =>
        \A i \in 1..Len(disk_data) :
            LET d == disk_data[i] IN
            /\ d.Is_Boot_Disk = "Yes" =>
                  /\ d.Attached_To \in DOMAIN project.instances
                  /\ ListsAsBoot(project.instances[d.Attached_To], d.Disk_Name)
            /\ (d.Attached_To = NotAttached \/ <<d.Zone, d.Disk_Name>> \in lookup_failed)
                  => d.Is_Boot_Disk = "No"

\* C14: in the rendered inventory sheet every record of vm_disk_data is on
\* exactly one row, no written cell was overwritten by a later record, the
\* row of a record holds the record's disk name in its boot or additional
\* column, and the VM Name and Zone cells of that row are the record's VM
\* name and zone.
C14_RowMatchesRecord ==
    (prog = "inv" /\ pc \in {"done", "crashed"} /\ ws # Empty) =>
        /\ overwritten = {}
        /\ DOMAIN row_of = 1..Len(vm_disk_data)
        /\ \A i \in 1..Len(vm_disk_data) :
              LET r == vm_disk_data[i]
                  row == row_of[i]
                  name_column == IF r.Boot_Disk = "Yes" THEN 2 ELSE 5
              IN  /\ row \in 2..(row_num - 1)
                  /\ <<row, name_column>> \in DOMAIN ws
                  /\ ws[<<row, name_column>>] = r.Disk_Name
                  /\ ws[<<row, 1>>] = r.VM_Name
                  /\ ws[<<row, 8>>] = r.Zone
                  /\ \A j \in 1..Len(vm_disk_data) :
                        (j # i /\ row_of[j] = row) =>
                            vm_disk_data[j].Boot_Disk # r.Boot_Disk

====
